---------------------------- MODULE Spec2Model ----------------------------
(***************************************************************************)
(* Model of ws_bridge (src/ai_agent_v2.py): one call session bridging the  *)
(* Exotel telephony socket to the Sarvam STT and TTS sockets.              *)
(*                                                                         *)
(* The session runs on one asyncio event loop.  A coroutine runs without   *)
(* interruption until it suspends at an await, so every action below is    *)
(* "one task runs from where it was suspended to its next suspension".     *)
(* Tasks made by asyncio.create_task start in creation order: `ready` is   *)
(* the queue of tasks created and not yet started.  A task suspended in a  *)
(* network operation or a timer resumes when the environment completes     *)
(* it, at any time relative to the other tasks, and the environment        *)
(* decides what the awaited operation returns.                             *)
(***************************************************************************)
EXTENDS Integers, Sequences, FiniteSets

(* ------------------------------ bounds -------------------------------- *)
MaxInputs == 4          \* messages the session acts on in one run
MaxChunkFrames == 2     \* frames in the longest TTS audio chunk
MaxPcmLen == 4          \* bytes in the longest buffer given to the WAV helpers

(* ------------------------- program constants -------------------------- *)
IN_SAMPLE_RATE == 8000
frame_bytes == 1600
InitialSequenceNumber == 1
InitialChunkIndex == 1

None == 0            \* Python None for a connection handle
NoSid == ""          \* a falsy stream_sid (None or the empty string)

VARIABLES
    stream_sid, sequence_number, chunk_index, exotel_sample_rate,
    stt_ws, tts_ws, transcripts_q,
    mainPc,          \* where ws_bridge is suspended
    tasks,           \* the tasks made by asyncio.create_task, in creation order
    ready,           \* tasks created and not yet started (task ids, FIFO)
    hung,            \* a coroutine spins without ever awaiting: the loop is blocked
    conns,           \* every upstream connection ever opened; its state is
                     \* "open", "lost", "closed" (by close()) or "aborted"
    sessionOpen,     \* the aiohttp ClientSession
    wsState,         \* the telephony socket: "open", "peer_closed", "closed"
    wire,            \* events written to the telephony socket, in order
    sttSent,         \* audio messages written to the STT sockets, in order
    sttLog,          \* history: messages the STT receivers have handled
    ttsFailLog,      \* history: Len(tasks) at each failed TTS connect/configure
    nMediaIn,        \* history: media events that carried a payload
    nInfo,           \* history: connected, mark and unknown events handled
    nMalformed,      \* history: malformed telephony messages handled
    nSttFail,        \* history: failed STT connect attempts
    nInputs,         \* history: messages handled so far (bounds the run)
    wav              \* the WAV helpers at work on one buffer (WavSpec)

vars == << stream_sid, sequence_number, chunk_index, exotel_sample_rate,
           stt_ws, tts_ws, transcripts_q, mainPc, tasks, ready, hung, conns,
           sessionOpen, wsState, wire, sttSent, sttLog, ttsFailLog,
           nMediaIn, nInfo, nMalformed, nSttFail, nInputs, wav >>


(* --------------------------- pure helpers ----------------------------- *)
Last(s) == s[Len(s)]

Min(a, b) == IF a < b THEN a ELSE b

\* base64.b64encode: n bytes become 4*ceil(n/3) characters, the last
\* (3 - n mod 3) mod 3 of them '='.  The bytes themselves are kept symbolically.
b64encode(part) ==
    LET n == part.data + part.zeros
    IN  [ chars |-> 4 * ((n + 2) \div 3),
          pad   |-> (3 - (n % 3)) % 3,
          bytes |-> part ]

\* length of base64.b64decode of a payload
b64decode_len(p) == 3 * (p.chars \div 4) - p.pad

NoPayload == [ chars |-> 0, pad |-> 0,
               bytes |-> [ src |-> 0, from |-> 0, data |-> 0, zeros |-> 0 ] ]

\* pcm[idx:idx+frame_bytes] of the src-th audio chunk (total bytes long),
\* without padding
Slice(src, total, idx) ==
    [ src |-> src, from |-> idx, data |-> Min(idx + frame_bytes, total) - idx,
      zeros |-> 0 ]

\* faulty variant: the short fragment is sent as it is
PadPartSendsShort(part) == part

\* "pad if short": part + b"\x00" * (frame_bytes - len(part))
PadPart(part) ==
    IF part.data < frame_bytes
        THEN [ part EXCEPT !.zeros = frame_bytes - part.data ]
        ELSE part

(* ---------------------------- WAV helpers ----------------------------- *)
\* A WAV file as the wave module writes it with setnchannels(1) and
\* setsampwidth(2): the RIFF header with the format fields, and the data
\* chunk.  writeframes writes every byte it is given, and close() patches the
\* sizes in the header to the number of bytes written.
wav_bytes_from_linear16(pcm_lin16, sample_rate) ==
    [ riffsize |-> 36 + Len(pcm_lin16),
      nchannels |-> 1, sampwidth |-> 2, framerate |-> sample_rate,
      datasize |-> Len(pcm_lin16),
      data |-> pcm_lin16 ]

\* wave.open(..., "rb") takes the number of frames from the size of the data
\* chunk, datasize // (nchannels * sampwidth); readframes(getnframes())
\* reads that many whole frames.
strip_wav_header_and_return_pcm(wav_bytes) ==
    LET framesize == wav_bytes.nchannels * wav_bytes.sampwidth
        nframes == wav_bytes.datasize \div framesize
    IN  SubSeq(wav_bytes.data, 1, Min(nframes * framesize, Len(wav_bytes.data)))

NoFile == wav_bytes_from_linear16(<< >>, IN_SAMPLE_RATE)

\* no buffer in the WAV helpers: the value of wav while a session runs
NoWav == [ stage |-> "none", pcm |-> << >>, rate |-> IN_SAMPLE_RATE,
           file |-> NoFile, frames |-> << >> ]

\* the buffers and the sample rates the helpers are given
PcmBytes == { 0, 1, 255 }
PcmInputs == UNION { [ 1..n -> PcmBytes ] : n \in 0..MaxPcmLen }
SampleRates == { IN_SAMPLE_RATE, 2 * IN_SAMPLE_RATE }

exotel_media_event_b64_pcm(seq, sid, chunk_idx, payload, turn) ==
    [ event |-> "media", sequence_number |-> seq, stream_sid |-> sid,
      chunk |-> chunk_idx, payload |-> payload, name |-> "", turn |-> turn ]

exotel_mark_event(seq, sid, nm, turn) ==
    [ event |-> "mark", sequence_number |-> seq, stream_sid |-> sid,
      chunk |-> 0, payload |-> NoPayload, name |-> nm, turn |-> turn ]


(* ----------------------- environment inputs --------------------------- *)
\* Telephony messages (one JSON object per message), ws_bridge lines 341-433.
\* sample_rate 0 stands for "no metadata.sample_rate"; payload "none" for a
\* media event without media.payload.
TelephonyMsg(ev, sid, sr, pl) ==
    [ event |-> ev, stream_sid |-> sid, sample_rate |-> sr, payload |-> pl ]

StartMsgs == { TelephonyMsg("start", "SID1", 0, "none"),
               TelephonyMsg("start", NoSid, 16000, "none") }

MediaMsgs == { TelephonyMsg("media", NoSid, 0, "pcm"),
               TelephonyMsg("media", NoSid, 0, "none") }

\* events the loop only logs: connected, mark, and one of an unknown type
InfoMsgs == { TelephonyMsg(ev, NoSid, 0, "none") : ev \in {"connected", "mark", "dtmf"} }

\* Malformed telephony messages: text that is not JSON; JSON that is not an
\* object; a media event whose media field is not an object; a payload that
\* is not base64; a payload, and a binary frame, that start with RIFF and
\* are not a WAV file.
MalformedMsgs == { "bad_json", "not_object", "media_not_object", "bad_base64",
                   "riff_payload", "riff_binary" }

StopMsgs == { TelephonyMsg("stop", NoSid, 0, "none"),
              TelephonyMsg("websocket.disconnect", NoSid, 0, "none") }

\* Lengths of the audio chunks the TTS upstream sends: shorter than a frame,
\* exactly a frame, and MaxChunkFrames frames of which the last is short.
ChunkLens == { 1, frame_bytes, (MaxChunkFrames - 1) * frame_bytes + 1 }

\* Messages received on the TTS socket (lines 260-311).  "other" is anything
\* the loop skips and that leaves the socket open: a binary frame, an audio
\* message without data, an unknown type.  "close" is the server closing the
\* socket.
TtsMsgs == { [ type |-> "audio", len |-> n ] : n \in ChunkLens }
           \cup { [ type |-> t, len |-> 0 ] :
                      t \in {"final", "error", "other", "close"} }

\* Messages received on the STT socket (lines 201-216).
Transcripts == {"", "hel", "hello"}
SttMsgs == { [ type |-> "data", transcript |-> tx ] : tx \in Transcripts }
           \cup { [ type |-> t, transcript |-> "" ] : t \in {"END_SPEECH", "CLOSE"} }

(* ------------------------------ tasks --------------------------------- *)
Task(kind) ==
    [ kind |-> kind, pc |-> "new", conn |-> None, frame |-> 0, partial |-> "",
      total |-> 0, idx |-> 0, src |-> 0, began |-> FALSE, sid0 |-> NoSid ]

\* asyncio.create_task(send_initial_greeting_and_wait_finish()), line 374
GreetTask(sid) == [ Task("greet") EXCEPT !.sid0 = sid ]
\* asyncio.create_task(forward_inbound_media_to_stt(pcm)), line 394
FwdTask(frame) == [ Task("fwd") EXCEPT !.frame = frame ]
\* asyncio.create_task(stt_receiver_loop()), line 189
RxTask == Task("sttrx")

TaskIds == 1..Len(tasks)

\* task t, just created, is the next one the event loop starts
Starting(t) == ~hung /\ ready # <<>> /\ Head(ready) = t /\ tasks[t].pc = "new"

\* task t is suspended at pc and the environment completes what it awaits
Resuming(t, pc) == ~hung /\ tasks[t].pc = pc

\* ws_bridge is suspended at pc and the environment completes what it awaits
MainResuming(pc) == ~hung /\ mainPc = pc

\* the arrival number of the next inbound audio frame
NextFrame == Cardinality({ t \in TaskIds : tasks[t].kind = "fwd" }) + 1

IsOpen(c) == c # None /\ conns[c].state = "open"

Conn(kind) == [ kind |-> kind, state |-> "open" ]

\* ws.close() on connection c
CloseConn(cs, c) ==
    IF cs[c].state = "open" THEN [ cs EXCEPT ![c].state = "closed" ] ELSE cs

\* faulty variant: session.close() leaves the transports as they are
CloseSessionLeavesOpen(cs) == cs

\* session.close(): the connector tears down every transport still open
CloseSession(cs) ==
    [ c \in 1..Len(cs) |->
        IF cs[c].state \in {"open", "lost"}
            THEN [ cs[c] EXCEPT !.state = "aborted" ] ELSE cs[c] ]

\* faulty variant: a send on a closed telephony socket still goes through
WsSendAlways == TRUE

\* websocket.send_text reaches the telephony socket only while it is open;
\* after a close or a disconnect it raises
WsSendOk == wsState = "open"

SessionInit ==
    /\ stream_sid = NoSid
    /\ sequence_number = InitialSequenceNumber
    /\ chunk_index = InitialChunkIndex
    /\ exotel_sample_rate = IN_SAMPLE_RATE
    /\ stt_ws = None
    /\ tts_ws = None
    /\ transcripts_q = << >>
    /\ mainPc = "recv"
    /\ tasks = << >>
    /\ ready = << >>
    /\ hung = FALSE
    /\ conns = << >>
    /\ sessionOpen = TRUE
    /\ wsState = "open"
    /\ wire = << >>
    /\ sttSent = << >>
    /\ sttLog = << >>
    /\ ttsFailLog = << >>
    /\ nMediaIn = 0
    /\ nInfo = 0
    /\ nMalformed = 0
    /\ nSttFail = 0
    /\ nInputs = 0

Init == SessionInit /\ wav = NoWav

sessionVars == << stream_sid, exotel_sample_rate >>
outVars == << sequence_number, chunk_index, wire >>
sttVars == << stt_ws, transcripts_q, sttSent, sttLog >>
envVars == << nInputs >>
\* what only the handlers of ignored and malformed messages and the WAV
\* helpers change
auxVars == << nInfo, nMalformed, wav >>

(* ------------------- ws_bridge: the main read loop -------------------- *)
\* `continue` back to `await websocket.receive()` (line 341): ws_bridge
\* suspends until the next telephony message.  `spawned` are the tasks just
\* created.
AwaitReceive(spawned) ==
    /\ mainPc' = "recv"
    /\ ready' = ready \o spawned

\* faulty variant: the greeting is launched without looking at tts_ws
MaybeGreetIgnoresTts(tts, sid) ==
    IF sid # NoSid
        THEN /\ tasks' = Append(tasks, GreetTask(sid))
             /\ AwaitReceive(<< Len(tasks) + 1 >>)
        ELSE /\ tasks' = tasks
             /\ AwaitReceive(<< >>)

\* lines 372-376: play the greeting if tts_ws and stream_sid are both set
MaybeGreet(tts, sid) ==
    IF tts # None /\ sid # NoSid
        THEN /\ tasks' = Append(tasks, GreetTask(sid))
             /\ AwaitReceive(<< Len(tasks) + 1 >>)
        ELSE /\ tasks' = tasks
             /\ AwaitReceive(<< >>)

\* faulty variant: the event is read as a start event without a stream_sid
RecvInfoClearsSid ==
    /\ MainResuming("recv") /\ nInputs < MaxInputs
    /\ \E m \in InfoMsgs : stream_sid' = m.stream_sid
    /\ AwaitReceive(<< >>)
    /\ nInfo' = nInfo + 1
    /\ nInputs' = nInputs + 1
    /\ UNCHANGED << exotel_sample_rate, outVars, sttVars, tts_ws, tasks, hung,
                    conns, sessionOpen, wsState, ttsFailLog, nMediaIn, nSttFail,
                    nMalformed, wav >>

\* lines 350-353, 402-406, 414-415: connected, mark and unknown events
RecvInfo ==
    /\ MainResuming("recv") /\ nInputs < MaxInputs
    /\ \E m \in InfoMsgs : TRUE
    /\ AwaitReceive(<< >>)
    /\ nInfo' = nInfo + 1
    /\ nInputs' = nInputs + 1
    /\ UNCHANGED << sessionVars, outVars, sttVars, tts_ws, tasks, hung, conns,
                    sessionOpen, wsState, ttsFailLog, nMediaIn, nSttFail,
                    nMalformed, wav >>

\* lines 356-377: the start event, up to the await inside ensure_tts_ws
RecvStart ==
    /\ MainResuming("recv") /\ nInputs < MaxInputs
    /\ \E m \in StartMsgs :
        /\ stream_sid' = m.stream_sid
        /\ exotel_sample_rate' =
              IF m.sample_rate # 0 THEN m.sample_rate ELSE exotel_sample_rate
        /\ nInputs' = nInputs + 1
        /\ IF tts_ws # None
              THEN \* ensure_tts_ws returns at once (line 222)
                   MaybeGreet(tts_ws, m.stream_sid)
              ELSE \* await sarvam_tts_connect(session) (line 225)
                   /\ mainPc' = "tts_connect"
                   /\ UNCHANGED << ready, tasks >>
    /\ UNCHANGED << outVars, sttVars, tts_ws, hung, conns, sessionOpen, wsState,
                    ttsFailLog, nMediaIn, nSttFail, auxVars >>

\* ensure_tts_ws lines 224-242, resumed when the connect attempt is over,
\* then lines 372-377
ensure_tts_ws ==
    /\ MainResuming("tts_connect")
    /\ \E r \in {"ok", "connect_failed", "config_failed"} :
        /\ conns' = IF r = "ok" THEN Append(conns, Conn("tts"))
                    ELSE IF r = "config_failed"
                        THEN \* send_json raised: the socket that was opened
                             \* is lost, and line 242 drops it without a close
                             Append(conns, [ Conn("tts") EXCEPT !.state = "lost" ])
                        ELSE conns
        /\ tts_ws' = IF r = "ok" THEN Len(conns) + 1 ELSE None
        /\ ttsFailLog' = IF r = "ok" THEN ttsFailLog
                                      ELSE Append(ttsFailLog, Len(tasks))
        /\ MaybeGreet(tts_ws', stream_sid)
    /\ UNCHANGED << sessionVars, outVars, sttVars, hung, sessionOpen, wsState,
                    envVars, nMediaIn, nSttFail, auxVars >>

\* lines 380-399: a media event
RecvMedia ==
    /\ MainResuming("recv") /\ nInputs < MaxInputs
    /\ \E m \in MediaMsgs :
        IF m.payload # "none"
           THEN /\ tasks' = Append(tasks, FwdTask(NextFrame))
                /\ nInputs' = nInputs + 1
                /\ nMediaIn' = nMediaIn + 1
                /\ AwaitReceive(<< Len(tasks) + 1 >>)
           ELSE \* line 398: nothing to forward
                /\ UNCHANGED << tasks, nInputs, nMediaIn >>
                /\ AwaitReceive(<< >>)
    /\ UNCHANGED << sessionVars, outVars, sttVars, tts_ws, hung, conns,
                    sessionOpen, wsState, ttsFailLog, nSttFail, auxVars >>

\* The finally block, lines 437-457: the next close still to be made after
\* stage `after`; ws_bridge suspends in each close it makes.
Cleanup(after, ws) ==
    /\ UNCHANGED ready
    /\ IF after = "break" /\ stt_ws # None
          THEN /\ conns' = CloseConn(conns, stt_ws)
               /\ mainPc' = "close_stt"
               /\ UNCHANGED sessionOpen /\ wsState' = ws
       ELSE IF after \in {"break", "stt"} /\ tts_ws # None
          THEN /\ conns' = CloseConn(conns, tts_ws)
               /\ mainPc' = "close_tts"
               /\ UNCHANGED sessionOpen /\ wsState' = ws
       ELSE IF after \in {"break", "stt", "tts"}
          THEN /\ conns' = CloseSession(conns)
               /\ sessionOpen' = FALSE
               /\ mainPc' = "close_session"
               /\ wsState' = ws
       ELSE    \* await websocket.close(), then the function returns
               /\ wsState' = IF ws = "open" THEN "closed" ELSE ws
               /\ mainPc' = "closed"
               /\ UNCHANGED << conns, sessionOpen >>

\* lines 409-411 and 431-433: stop, or the peer disconnecting
RecvStop ==
    /\ MainResuming("recv") /\ nInputs < MaxInputs
    /\ \E m \in StopMsgs :
        Cleanup("break", IF m.event = "stop" THEN wsState ELSE "peer_closed")
    /\ nInputs' = nInputs + 1
    /\ UNCHANGED << sessionVars, outVars, sttVars, tts_ws, tasks, hung,
                    ttsFailLog, nMediaIn, nSttFail, auxVars >>

\* The malformed messages whose exception is caught where it is raised:
\* json.loads at line 345 (except at 346), and b64decode and
\* strip_wav_header_and_return_pcm at lines 390-394 (except at 396).
Caught(kind) == kind \in {"bad_json", "bad_base64", "riff_payload"}

\* A malformed message.  data.get at line 348, media.get at line 385 and
\* strip_wav_header_and_return_pcm at line 423 are inside no try block but
\* the outer one: their exception leaves the loop at line 434 and the
\* finally block runs.
RecvMalformed ==
    /\ MainResuming("recv") /\ nInputs < MaxInputs
    /\ \E kind \in MalformedMsgs :
        IF Caught(kind)
           THEN /\ AwaitReceive(<< >>)
                /\ UNCHANGED << conns, sessionOpen, wsState >>
           ELSE Cleanup("break", wsState)
    /\ nMalformed' = nMalformed + 1
    /\ nInputs' = nInputs + 1
    /\ UNCHANGED << sessionVars, outVars, sttVars, tts_ws, tasks, hung,
                    ttsFailLog, nMediaIn, nSttFail, nInfo, wav >>

\* lines 444-457: the rest of the finally block
CleanupStep ==
    /\ ~hung
    /\ \/ mainPc = "close_stt" /\ Cleanup("stt", wsState)
       \/ mainPc = "close_tts" /\ Cleanup("tts", wsState)
       \/ mainPc = "close_session" /\ Cleanup("session", wsState)
    /\ UNCHANGED << sessionVars, outVars, sttVars, tts_ws, tasks, hung,
                    ttsFailLog, nMediaIn, nSttFail, envVars, auxVars >>


(* ------------- send_initial_greeting_and_wait_finish ------------------ *)
\* the coroutine returns: its locals are gone
Finish(t, rec) ==
    [ tasks EXCEPT ![t] =
        [ Task(rec.kind) EXCEPT !.pc = "done", !.frame = rec.frame,
                                !.sid0 = rec.sid0 ] ]

\* task t loops on receive() without ever suspending: no other coroutine of
\* the event loop runs again
Spin(t) ==
    /\ hung' = TRUE
    /\ tasks' = [ tasks EXCEPT ![t].pc = "spin" ]

\* aiohttp refuses a receive() on a socket another coroutine is receiving on
ConcurrentReceive(t, kind, pc, c) ==
    \E u \in TaskIds :
        u # t /\ tasks[u].kind = kind /\ tasks[u].pc = pc /\ tasks[u].conn = c

\* `m = await tts_ws.receive()` (line 260): suspend until a message is there;
\* a concurrent receive raises and line 320 ends the task
GreetReceive(t, rec) ==
    /\ tasks' = IF ConcurrentReceive(t, "greet", "tts_recv", tts_ws)
                   THEN Finish(t, rec)
                   ELSE [ tasks EXCEPT ![t] =
                            [ rec EXCEPT !.pc = "tts_recv", !.conn = tts_ws ] ]
    /\ UNCHANGED outVars

\* lines 289-291, after the frame is on the socket
Advance(rec) == [ rec EXCEPT !.idx = rec.idx + frame_bytes, !.pc = "sleep" ]

\* lines 281-287: one frame of the current chunk.  send_text writes the
\* event and suspends until the socket has drained (which may be at once:
\* then the task is the next to run); the counters are incremented only
\* after it returns.
EmitFrame(t, rec) ==
    LET part == PadPart(Slice(rec.src, rec.total, rec.idx))
        evt  == exotel_media_event_b64_pcm(sequence_number, stream_sid,
                                           chunk_index, b64encode(part), t)
    IN  /\ UNCHANGED << sequence_number, chunk_index >>
        /\ IF WsSendOk
              THEN /\ wire' = Append(wire, evt)
                   /\ tasks' = [ tasks EXCEPT ![t] = [ rec EXCEPT !.pc = "drain" ] ]
              ELSE \* send_text raises: line 320
                   /\ tasks' = Finish(t, rec)
                   /\ UNCHANGED wire

\* lines 313-319: the mark event after the receive loop
EmitMark(t, rec) ==
    LET mark == exotel_mark_event(sequence_number, stream_sid, "greeting_end", t)
    IN  /\ UNCHANGED << sequence_number, chunk_index >>
        /\ IF WsSendOk
              THEN /\ wire' = Append(wire, mark)
                   /\ tasks' = [ tasks EXCEPT ![t] =
                                   [ rec EXCEPT !.pc = "mark_drain" ] ]
              ELSE \* send_text raises: line 318
                   /\ tasks' = Finish(t, rec)
                   /\ UNCHANGED wire

greetFrame == << sessionVars, sttVars, tts_ws, mainPc, sessionOpen,
                 wsState, ttsFailLog, nMediaIn, nSttFail, auxVars >>

\* lines 246-260: the guard, the text and flush messages, the first receive
GreetStart(t) ==
    /\ Starting(t) /\ tasks[t].kind = "greet"
    /\ ready' = Tail(ready)
    /\ IF tts_ws = None \/ stream_sid = NoSid \/ ~IsOpen(tts_ws)
          THEN \* line 247, or send_json raises: line 254
               /\ tasks' = Finish(t, tasks[t])
               /\ UNCHANGED outVars
          ELSE GreetReceive(t, [ tasks[t] EXCEPT !.began = TRUE ])
    /\ UNCHANGED << greetFrame, conns, hung, nInputs >>

\* lines 260-311: a message from the TTS socket
GreetMsg(t) ==
    /\ Resuming(t, "tts_recv") /\ tasks[t].kind = "greet"
    /\ IF ~IsOpen(tasks[t].conn)
          THEN \* a closed socket yields non-text CLOSING/CLOSED messages, which
               \* line 311 skips; once receive() returns them without
               \* suspending the loop never awaits again
               /\ Spin(t)
               /\ UNCHANGED << outVars, conns, nInputs >>
          ELSE /\ nInputs < MaxInputs
               /\ nInputs' = nInputs + 1
               /\ \E m \in TtsMsgs :
                    IF m.type = "close"
                       THEN \* receive() returns CLOSE, not text: line 311
                            \* skips it, and every later receive() returns
                            \* CLOSED at once
                            /\ conns' = CloseConn(conns, tasks[t].conn)
                            /\ Spin(t)
                            /\ UNCHANGED outVars
                       ELSE /\ UNCHANGED << conns, hung >>
                            /\ IF m.type = "audio"
                                  THEN EmitFrame(t, [ tasks[t] EXCEPT
                                                        !.total = m.len,
                                                        !.idx = 0,
                                                        !.src = nInputs + 1 ])
                               ELSE IF m.type \in {"final", "error"}
                                  THEN EmitMark(t, tasks[t])
                                  ELSE GreetReceive(t, tasks[t])
    /\ UNCHANGED << greetFrame, ready >>

\* lines 287-292: send_text returns after the drain
GreetDrained(t) ==
    /\ Resuming(t, "drain")
    /\ tasks' = [ tasks EXCEPT ![t] = Advance(tasks[t]) ]
    /\ sequence_number' = sequence_number + 1
    /\ chunk_index' = chunk_index + 1
    /\ UNCHANGED << greetFrame, conns, hung, wire, ready, nInputs >>

\* lines 280-292: after the pacing sleep, the next frame or the next receive
GreetSlept(t) ==
    /\ Resuming(t, "sleep")
    /\ IF tasks[t].idx < tasks[t].total
          THEN EmitFrame(t, tasks[t])
          ELSE GreetReceive(t, tasks[t])
    /\ UNCHANGED << greetFrame, conns, hung, ready, nInputs >>

\* lines 315-317: send_text of the mark returns after the drain
GreetMarkDrained(t) ==
    /\ Resuming(t, "mark_drain")
    /\ tasks' = Finish(t, tasks[t])
    /\ sequence_number' = sequence_number + 1
    /\ UNCHANGED << greetFrame, conns, hung, wire, chunk_index, ready, nInputs >>

(* ---------------- forward_inbound_media_to_stt ------------------------ *)
\* send_audio_chunk_to_stt (lines 129-133) on connection c; a send on a
\* socket that is not open raises and line 336 drops the frame
SttSend(c, frame) ==
    IF IsOpen(c)
        THEN Append(sttSent, [ type |-> "audio", frame |-> frame, conn |-> c ])
        ELSE sttSent

fwdFrame == << sessionVars, outVars, transcripts_q, sttLog, tts_ws, mainPc,
               hung, sessionOpen, wsState, ttsFailLog, nMediaIn, envVars,
               auxVars >>

\* lines 330-336, up to the await of the connect when stt_ws is not set
forward_inbound_media_to_stt(t) ==
    /\ Starting(t) /\ tasks[t].kind = "fwd"
    /\ ready' = Tail(ready)
    /\ IF stt_ws # None
          THEN /\ sttSent' = SttSend(stt_ws, tasks[t].frame)
               /\ tasks' = Finish(t, tasks[t])
               /\ UNCHANGED << stt_ws, nSttFail >>
       ELSE IF sessionOpen
          THEN \* await sarvam_stt_connect(session), line 186
               /\ tasks' = [ tasks EXCEPT ![t].pc = "stt_connect" ]
               /\ UNCHANGED << stt_ws, sttSent, nSttFail >>
          ELSE \* the session is closed: ws_connect raises, line 192
               /\ tasks' = Finish(t, tasks[t])
               /\ stt_ws' = None
               /\ nSttFail' = nSttFail + 1
               /\ UNCHANGED sttSent
    /\ UNCHANGED << fwdFrame, conns >>

\* start_sarvam_stt lines 186-192 resumed when the connect attempt is over,
\* then lines 332-336
start_sarvam_stt(t) ==
    /\ Resuming(t, "stt_connect")
    /\ \E ok \in BOOLEAN :
        /\ ok => sessionOpen
        /\ IF ok
              THEN /\ conns' = Append(conns, Conn("stt"))
                   /\ stt_ws' = Len(conns) + 1
                   /\ tasks' = Append(Finish(t, tasks[t]), RxTask)
                   /\ ready' = Append(ready, Len(tasks) + 1)
                   /\ sttSent' = Append(sttSent, [ type |-> "audio",
                                                   frame |-> tasks[t].frame,
                                                   conn |-> Len(conns) + 1 ])
                   /\ UNCHANGED nSttFail
              ELSE /\ stt_ws' = None
                   /\ tasks' = Finish(t, tasks[t])
                   /\ nSttFail' = nSttFail + 1
                   /\ UNCHANGED << ready, conns, sttSent >>
    /\ UNCHANGED fwdFrame

(* ------------------------ stt_receiver_loop --------------------------- *)
\* `msg = await stt_ws.receive()` (line 201) on whatever stt_ws is now
RxReceive(t, rec) ==
    tasks' = IF stt_ws = None \/ ConcurrentReceive(t, "sttrx", "stt_recv", stt_ws)
                THEN \* the call raises: line 218
                     Finish(t, rec)
                ELSE [ tasks EXCEPT ![t] =
                         [ rec EXCEPT !.pc = "stt_recv", !.conn = stt_ws ] ]

rxFrame == << sessionVars, outVars, stt_ws, sttSent, tts_ws, mainPc,
              sessionOpen, wsState, ttsFailLog, nMediaIn, nSttFail, auxVars >>

\* lines 196-201
RxStart(t) ==
    /\ Starting(t) /\ tasks[t].kind = "sttrx"
    /\ ready' = Tail(ready)
    /\ RxReceive(t, tasks[t])
    /\ UNCHANGED << rxFrame, transcripts_q, sttLog, hung, conns, nInputs >>

\* faulty variant: the partial is not cleared after it is enqueued
OnSttMsgKeepsPartial(m, partial, q) ==
    IF m.type = "data"
        THEN [ partial |-> IF m.transcript # "" THEN m.transcript ELSE partial,
               q |-> q ]
    ELSE IF m.type = "END_SPEECH" /\ partial # ""
        THEN [ partial |-> partial, q |-> Append(q, partial) ]
        ELSE [ partial |-> partial, q |-> q ]

\* faulty variant: a partial does not overwrite the one already buffered
OnSttMsgKeepsFirst(m, partial, q) ==
    IF m.type = "data"
        THEN [ partial |-> IF partial = "" THEN m.transcript ELSE partial,
               q |-> q ]
    ELSE IF m.type = "END_SPEECH" /\ partial # ""
        THEN [ partial |-> "", q |-> Append(q, partial) ]
        ELSE [ partial |-> partial, q |-> q ]

\* lines 207-216: what one text message does to (partial, transcripts_q)
OnSttMsg(m, partial, q) ==
    IF m.type = "data"
        THEN [ partial |-> IF m.transcript # "" THEN m.transcript ELSE partial,
               q |-> q ]
    ELSE IF m.type = "END_SPEECH" /\ partial # ""
        THEN [ partial |-> "", q |-> Append(q, partial) ]
        ELSE [ partial |-> partial, q |-> q ]

\* lines 201-216: a message from the STT socket
stt_receiver_loop(t) ==
    /\ Resuming(t, "stt_recv") /\ tasks[t].kind = "sttrx"
    /\ IF ~IsOpen(tasks[t].conn)
          THEN \* CLOSING/CLOSED are not CLOSE: line 205 skips them, and the
               \* loop never awaits again
               /\ Spin(t)
               /\ UNCHANGED << transcripts_q, sttLog, conns, nInputs >>
          ELSE /\ nInputs < MaxInputs
               /\ nInputs' = nInputs + 1
               /\ hung' = hung
               /\ \E m \in SttMsgs :
                    LET r == OnSttMsg(m, tasks[t].partial, transcripts_q)
                        rec == [ tasks[t] EXCEPT !.partial = r.partial ]
                    IN  /\ sttLog' = Append(sttLog, [ rx |-> t, msg |-> m ])
                        /\ transcripts_q' = r.q
                        /\ IF m.type = "CLOSE"
                              THEN \* the server closed the socket: line 203
                                   /\ tasks' = Finish(t, rec)
                                   /\ conns' = CloseConn(conns, tasks[t].conn)
                              ELSE /\ RxReceive(t, rec)
                                   /\ UNCHANGED conns
    /\ UNCHANGED << rxFrame, ready >>

(* --------------------------- the event loop --------------------------- *)
Next ==
    \/ RecvInfo
    \/ RecvStart
    \/ ensure_tts_ws
    \/ RecvMedia
    \/ RecvStop
    \/ RecvMalformed
    \/ CleanupStep
    \/ \E t \in TaskIds : GreetStart(t)
    \/ \E t \in TaskIds : GreetMsg(t)
    \/ \E t \in TaskIds : GreetDrained(t)
    \/ \E t \in TaskIds : GreetSlept(t)
    \/ \E t \in TaskIds : GreetMarkDrained(t)
    \/ \E t \in TaskIds : forward_inbound_media_to_stt(t)
    \/ \E t \in TaskIds : start_sarvam_stt(t)
    \/ \E t \in TaskIds : RxStart(t)
    \/ \E t \in TaskIds : stt_receiver_loop(t)

Spec == Init /\ [][Next]_vars

(* ------------------- the WAV helpers on their own --------------------- *)
\* everything but wav
sessionState ==
    << stream_sid, sequence_number, chunk_index, exotel_sample_rate,
       stt_ws, tts_ws, transcripts_q, mainPc, tasks, ready, hung, conns,
       sessionOpen, wsState, wire, sttSent, sttLog, ttsFailLog,
       nMediaIn, nInfo, nMalformed, nSttFail, nInputs >>

\* a buffer and a sample rate for wav_bytes_from_linear16
WavInit ==
    /\ SessionInit
    /\ \E p \in PcmInputs : \E r \in SampleRates :
          wav = [ NoWav EXCEPT !.stage = "pcm", !.pcm = p, !.rate = r ]

WavWrite ==
    /\ wav.stage = "pcm"
    /\ wav' = [ wav EXCEPT !.stage = "wav",
                           !.file = wav_bytes_from_linear16(wav.pcm, wav.rate) ]
    /\ UNCHANGED sessionState

WavRead ==
    /\ wav.stage = "wav"
    /\ wav' = [ wav EXCEPT !.stage = "frames",
                           !.frames = strip_wav_header_and_return_pcm(wav.file) ]
    /\ UNCHANGED sessionState

WavNext == WavWrite \/ WavRead

WavSpec == WavInit /\ [][WavNext]_vars

(* ------------------------------ claims -------------------------------- *)
WireIdx == 1..Len(wire)

IsGreet(t) == tasks[t].kind = "greet"

\* ws_bridge has not left its read loop
SessionRunning == mainPc \in {"recv", "tts_connect"}

\* C1: the sequence_number values of the events written to the telephony
\* socket are strictly increasing in emission order and the first one is 1.
\* Violated: after a second start two greeting tasks share sequence_number,
\* and each reads it before send_text and increments it after.
C1_SequenceStrictlyIncreasing ==
    /\ wire # << >> => wire[1].sequence_number = 1
    /\ \A i \in WireIdx : \A j \in WireIdx :
          i < j => wire[i].sequence_number < wire[j].sequence_number

\* C2: every outbound media payload decodes to exactly frame_bytes bytes; a
\* fragment shorter than a frame is right-padded with zeros, never sent short.
C2_FrameSizeExact ==
    \A i \in WireIdx :
        wire[i].event = "media" =>
            LET p == wire[i].payload
            IN  /\ b64decode_len(p) = frame_bytes
                /\ p.bytes.data >= 1
                /\ p.bytes.data <= frame_bytes
                /\ p.bytes.zeros = frame_bytes - p.bytes.data

\* a short tail fragment of a longer chunk and a full frame have both been sent
C2_Witness ==
    /\ \E i \in WireIdx : /\ wire[i].event = "media"
                          /\ wire[i].payload.bytes.from > 0
                          /\ wire[i].payload.bytes.zeros > 0
    /\ \E i \in WireIdx : /\ wire[i].event = "media"
                          /\ wire[i].payload.bytes.zeros = 0

\* the step in which a receiver handles an END_SPEECH signal
EndSpeechStep ==
    /\ Len(sttLog') = Len(sttLog) + 1
    /\ Last(sttLog').msg.type = "END_SPEECH"

\* C3: an END_SPEECH signal enqueues exactly one transcript when a non-empty
\* partial is buffered and nothing when the buffer is empty; afterwards the
\* buffer is empty.
C3_OneFinalPerEndSpeech ==
    [][ EndSpeechStep =>
          LET t == Last(sttLog').rx
          IN  /\ tasks[t].partial # "" =>
                    Len(transcripts_q') = Len(transcripts_q) + 1
              /\ tasks[t].partial = "" => transcripts_q' = transcripts_q
              /\ tasks'[t].partial = "" ]_vars

\* a partial, END_SPEECH, END_SPEECH again: one transcript only
C3_Witness ==
    /\ Len(sttLog) = 3
    /\ sttLog[1].msg.type = "data" /\ sttLog[1].msg.transcript # ""
    /\ sttLog[2].msg.type = "END_SPEECH"
    /\ sttLog[3].msg.type = "END_SPEECH"
    /\ sttLog[1].rx = sttLog[2].rx /\ sttLog[2].rx = sttLog[3].rx
    /\ Len(transcripts_q) = 1

\* the most recent non-empty partial receiver t was sent since its previous
\* END_SPEECH, read off the history of messages
RECURSIVE LatestPartial(_, _)
LatestPartial(log, t) ==
    IF log = << >> THEN ""
    ELSE LET e == log[Len(log)]
             rest == SubSeq(log, 1, Len(log) - 1)
         IN  IF e.rx # t THEN LatestPartial(rest, t)
             ELSE IF e.msg.type = "END_SPEECH" THEN ""
             ELSE IF e.msg.type = "data" /\ e.msg.transcript # ""
                 THEN e.msg.transcript
                 ELSE LatestPartial(rest, t)

\* C4: the text of every transcript enqueued equals the most recent partial
\* received since the previous END_SPEECH.
C4_FinalIsLatestPartial ==
    [][ transcripts_q' # transcripts_q =>
          /\ EndSpeechStep
          /\ Len(transcripts_q') = Len(transcripts_q) + 1
          /\ SubSeq(transcripts_q', 1, Len(transcripts_q)) = transcripts_q
          /\ Last(transcripts_q') = LatestPartial(sttLog, Last(sttLog').rx)
          /\ Last(transcripts_q') # "" ]_vars

\* "hel", "hello", END_SPEECH: "hello" is enqueued
C4_Witness ==
    /\ Len(sttLog) = 3
    /\ sttLog[1].msg.transcript = "hel"
    /\ sttLog[2].msg.transcript = "hello"
    /\ sttLog[3].msg.type = "END_SPEECH"
    /\ sttLog[1].rx = sttLog[2].rx /\ sttLog[2].rx = sttLog[3].rx
    /\ transcripts_q = << "hello" >>

\* the marks of turn t on the wire
MarksOf(t) == { i \in WireIdx : wire[i].turn = t /\ wire[i].event = "mark" }

\* C5: the greeting turn launched by a start event with a stream_sid emits
\* its media frames carrying that stream_sid, then exactly one mark named
\* greeting_end, and no media frame of the turn after the mark.  Stated for
\* a session that has not been stopped.  Violated: a later start event
\* overwrites stream_sid under the running turn.
C5_GreetingTurn ==
    \A t \in TaskIds :
        IsGreet(t) /\ SessionRunning =>
            /\ \A i \in WireIdx :
                  wire[i].turn = t => wire[i].stream_sid = tasks[t].sid0
            /\ \A i \in MarksOf(t) :
                  /\ wire[i].name = "greeting_end"
                  /\ \A j \in WireIdx : wire[j].turn = t /\ j # i => j < i
            /\ Cardinality(MarksOf(t)) <= 1
            /\ tasks[t].pc = "done" => Cardinality(MarksOf(t)) = 1

\* C6: once the session is CLOSED nothing more is written to the telephony
\* socket.
C6_NoWireAfterClosed ==
    [][ mainPc = "closed" => wire' = wire ]_vars

\* the session is CLOSED while a greeting task still has frames of its
\* current chunk to send
C6_Witness ==
    /\ mainPc = "closed"
    /\ \E t \in TaskIds :
          /\ IsGreet(t)
          /\ tasks[t].pc \in {"drain", "sleep"}
          /\ tasks[t].idx + frame_bytes < tasks[t].total
          /\ \E i \in WireIdx : wire[i].turn = t

\* the step in which a TTS connect or its configuration send fails
TtsFailStep == Len(ttsFailLog') = Len(ttsFailLog) + 1

\* C7: when the TTS connect or configuration send fails during start, the
\* greeting is skipped (no task, nothing on the wire), the session goes on
\* reading, and every later media event with a payload is handed to
\* forward_inbound_media_to_stt.
C7_TtsFailureSkipsGreeting ==
    [][ /\ TtsFailStep =>
              /\ tasks' = tasks
              /\ wire' = wire
              /\ tts_ws' = None
              /\ mainPc' = "recv"
        /\ (ttsFailLog # << >> /\ nMediaIn' = nMediaIn + 1) =>
              /\ tasks' = Append(tasks, FwdTask(nMediaIn + 1))
              /\ ready' = Append(ready, Len(tasks'))
              /\ mainPc' = "recv" ]_vars

\* after a failed TTS connect a media event arrived and its frame went to STT
C7_Witness ==
    /\ ttsFailLog # << >>
    /\ wire = << >>
    /\ \E t \in TaskIds :
          /\ t > ttsFailLog[1]
          /\ tasks[t].kind = "fwd"
          /\ \E i \in 1..Len(sttSent) : sttSent[i].frame = tasks[t].frame

\* every task is finished or suspended waiting for a peer, and ws_bridge waits
\* for the next telephony message
Idle ==
    /\ mainPc = "recv" /\ ~hung /\ ready = << >>
    /\ \A t \in TaskIds : tasks[t].pc \in {"done", "tts_recv", "stt_recv"}

\* C8: every transcript enqueued is eventually consumed (passed to
\* get_bot_reply and the reply played) unless the session is closed first.
\* A consumer would be runnable while the queue is non-empty, so in an idle
\* session the queue would be empty.  Violated: nothing ever reads
\* transcripts_q.
C8_TranscriptsConsumed ==
    Idle => transcripts_q = << >>

\* text sent to TTS, mark not yet sent
InFlight(t) == IsGreet(t) /\ tasks[t].pc \in {"tts_recv", "drain", "sleep"}

\* C9: at most one outbound turn is in flight at any time.  Violated: a
\* second start during the greeting starts a second turn on the same socket.
C9_OneTurnInFlight ==
    Cardinality({ t \in TaskIds : InFlight(t) }) <= 1

\* C10: inbound frames reach the STT upstream in arrival order.  Violated:
\* frames that arrive while stt_ws is unset each open a connection, and are
\* sent in the order the connects finish.
C10_SttArrivalOrder ==
    \A i \in 1..Len(sttSent) : \A j \in 1..Len(sttSent) :
        i < j => sttSent[i].frame < sttSent[j].frame

\* the connections of one kind that are open now
OpenConns(kind) ==
    { c \in 1..Len(conns) : conns[c].kind = kind /\ conns[c].state = "open" }

\* the STT receiver loops waiting for a message
Receivers == { t \in TaskIds : tasks[t].kind = "sttrx" /\ tasks[t].pc = "stt_recv" }

\* C11: at every moment the session has at most one open STT connection, at
\* most one STT receiver loop and at most one open TTS connection.  Violated:
\* every forwarding task that finds stt_ws unset opens a connection of its own.
C11_OneConnectionEach ==
    /\ Cardinality(OpenConns("stt")) <= 1
    /\ Cardinality(Receivers) <= 1
    /\ Cardinality(OpenConns("tts")) <= 1

\* the step in which ws_bridge handles a malformed telephony message
MalformedStep == nMalformed' = nMalformed + 1

\* C12: a malformed telephony message never ends the session: it is dropped
\* (no task is created for it, nothing is closed) and ws_bridge goes back to
\* reading.  Violated: three of the six kinds raise outside every try block
\* but the outer one, which leaves the loop.
C12_MalformedNeverEndsSession ==
    [][ MalformedStep =>
          /\ mainPc' = "recv"
          /\ tasks' = tasks
          /\ conns' = conns
          /\ sessionOpen' = sessionOpen
          /\ wsState' = wsState ]_vars

\* ws_bridge is in its finally block, suspended in one of the closes
InCleanup == mainPc \in {"close_stt", "close_tts", "close_session"}

\* C13: cleanup closes the STT connection, then the TTS connection, then the
\* telephony socket: the connection stt_ws names is no longer open once the
\* TTS close is made, neither upstream connection is open once the session
\* and the telephony socket are closed, the telephony socket is closed last,
\* and no close keeps the later ones from being made.  Violated: stt_ws.close()
\* wakes the receiver loop, which then spins, and the finally block never
\* gets past its first close.
C13_CleanupOrder ==
    /\ mainPc \in {"close_tts", "close_session", "closed"} => ~IsOpen(stt_ws)
    /\ mainPc \in {"close_session", "closed"} => ~IsOpen(tts_ws)
    /\ wsState = "closed" => mainPc = "closed"
    /\ InCleanup => ~hung

\* C14: after a stop event or a disconnect every task of the session ends: in
\* a CLOSED session every task has returned, and no task loops forever once
\* ws_bridge has left its read loop.  Violated: the finally block cancels no
\* task; a task suspended in a sleep, a send or a connect outlives the
\* session, and one suspended in receive() spins on the closed socket.
C14_TasksEndWithSession ==
    /\ mainPc = "closed" => \A t \in TaskIds : tasks[t].pc = "done"
    /\ ~SessionRunning => \A t \in TaskIds : tasks[t].pc # "spin"

\* the step in which ws_bridge handles a connected, mark or unknown event
InfoStep == nInfo' = nInfo + 1

\* C15: a connected event, a mark event and an event of unknown type change
\* nothing: stream_sid, the sample rate, sequence_number, chunk_index and both
\* upstream handles stay as they are, nothing is written to the telephony
\* socket, no task is created, nothing is closed, and ws_bridge goes back to
\* reading.
C15_InfoEventsChangeNothing ==
    [][ InfoStep =>
          /\ UNCHANGED << stream_sid, exotel_sample_rate, sequence_number,
                          chunk_index, stt_ws, tts_ws, wire >>
          /\ UNCHANGED << tasks, ready, conns, sessionOpen, wsState,
                          transcripts_q, sttSent >>
          /\ mainPc' = "recv" ]_vars

\* such an event has been handled in a session that has a stream_sid, an open
\* TTS connection and frames already sent
C15_Witness ==
    /\ nInfo > 0
    /\ mainPc = "recv"
    /\ stream_sid # NoSid
    /\ IsOpen(tts_ws)
    /\ sequence_number > InitialSequenceNumber
    /\ wire # << >>

\* C16: strip_wav_header_and_return_pcm(wav_bytes_from_linear16(pcm, rate))
\* is pcm, for every buffer and every sample rate.  Violated: a buffer of odd
\* length comes back without its last byte.
C16_WavRoundTrip ==
    wav.stage = "frames" => wav.frames = wav.pcm


\* C17: once a connect attempt to an upstream (STT or TTS) has failed, no
\* later step starts another connect attempt to that upstream.  Violated:
\* the failure leaves the handle None, and the next media or start event
\* connects again.
C17_NoConnectAfterFailure ==
    [][ /\ nSttFail > 0 =>
             \A t \in TaskIds : tasks'[t].pc = "stt_connect"
                                    => tasks[t].pc = "stt_connect"
        /\ ttsFailLog # << >> =>
             (mainPc' = "tts_connect" => mainPc = "tts_connect") ]_vars


\* C18: when the TTS upstream closes its socket while a turn's audio is being
\* received, the turn's receive loop terminates; the task never loops
\* forever.  Violated: the loop skips the close message and every message
\* after it, and receive() on a closed socket returns without suspending.
C18_TtsCloseEndsTurn ==
    SessionRunning => \A t \in TaskIds : IsGreet(t) => tasks[t].pc # "spin"

\* C19: within one turn zero padding is only at the very end: a frame of the
\* turn that is followed by another frame of the turn carries no padding.
\* Violated: the last frame of every audio chunk is padded.
C19_PaddingOnlyAtTurnEnd ==
    \A i \in WireIdx : \A j \in WireIdx :
        ( /\ i < j
          /\ wire[i].event = "media" /\ wire[j].event = "media"
          /\ wire[i].turn = wire[j].turn )
        => wire[i].payload.bytes.zeros = 0

\* what has been sent on the STT connection c, in order
SentOn(c) == SelectSeq(sttSent, LAMBDA s : s.conn = c)

\* C20: when an STT connection is open and no inbound audio arrives for the
\* idle window, a flush message is sent to the STT upstream.  A timer for
\* the window would be a task waiting to run; in an idle session, where no
\* task is left to run, the last message on the open connection would be the
\* flush.  Violated: nothing sends a flush to the STT upstream.
C20_IdleFlush ==
    ( Idle /\ IsOpen(stt_ws) /\ SentOn(stt_ws) # << >> )
        => Last(SentOn(stt_ws)).type = "flush"


\* C21: nothing is written to the telephony socket before a start event
\* with a non-empty stream_sid has been handled (a greeting has been launched
\* for such a stream_sid), and every outbound event carries a non-empty
\* stream_sid.  Violated: the guard on stream_sid is evaluated once, when the
\* greeting task starts; a later start event without a stream_sid clears it
\* under the running turn.
C21_OutboundHasStreamSid ==
    /\ wire # << >> => \E t \in TaskIds : IsGreet(t) /\ tasks[t].sid0 # NoSid
    /\ \A i \in WireIdx : wire[i].stream_sid # NoSid


\* the connections opened during the session
ConnIds == 1..Len(conns)

\* C22: every upstream connection opened during the session has been closed
\* by the time the session is CLOSED, whatever the interleaving of connect
\* attempts and wherever a failure happens: by its own close(), or with the
\* client session that owns its transport.
C22_NoConnectionLeaked ==
    mainPc = "closed" =>
        \A c \in ConnIds : conns[c].state \in {"closed", "aborted"}

\* the session is CLOSED after two forwarding tasks opened STT connections
\* concurrently and a TTS socket was dropped after its configuration send
\* failed
C22_Witness ==
    /\ mainPc = "closed"
    /\ Cardinality({ c \in ConnIds : conns[c].kind = "stt" }) >= 2
    /\ \E c \in ConnIds : conns[c].kind = "tts" /\ c # tts_ws
    /\ \E c \in ConnIds : conns[c].state = "aborted"

=============================================================================
